---------------------------- MODULE Spec2Model ----------------------------
(*************************************************************************)
(* Model of scripts/analyze_trader_profile.py: main() loads three CSV    *)
(* files (an absent file is an empty record list), analyze_trader_profile*)
(* builds the profile section by section, and main() writes the report.  *)
(* One action per section of the code; a Python exception raised inside a *)
(* section ends the run with pc = "error" and the exception's name.      *)
(*                                                                       *)
(* Numbers.  Python floats are modelled by exact rationals; the values   *)
(* the code rounds with round(x, 2) are held in hundredths, the values   *)
(* it rounds with round(x, 8) are held in units of 1e-8 (satoshis).      *)
(*************************************************************************)
EXTENDS Integers, Sequences, FiniteSets, TLC

VARIABLES
    files,      \* the three input files: "absent" flag and the rows of each
    pc,         \* position of the run in main / analyze_trader_profile
    orders,     \* main: orders
    wallet_history,
    executions,
    locals,     \* the bound local variables of analyze_trader_profile
    profile,    \* the profile dict being built
    report,     \* the JSON document written by main (EmptyMap until written)
    error       \* name of the uncaught exception, "none" while there is none

vars == <<files, pc, orders, wallet_history, executions, locals, profile, report, error>>

----------------------------------------------------------------------------
(* Bounds of the model *)

MaxOrders == 3
MaxWallet == 3
MaxRun == 36

----------------------------------------------------------------------------
(* Program constants *)

LargeOrderThreshold == 10000
SatoshisPerBtc == 100000000
OutlierMinutes == 60 * 24 * 7
ScoreMin == 1
ScoreMax == 10

----------------------------------------------------------------------------
(* Python values *)

EmptyMap == [k \in {} |-> 0]

\* dict.get(key, default)
Get(d, k, default) == IF k \in DOMAIN d THEN d[k] ELSE default

Min2(a, b) == IF a <= b THEN a ELSE b
Max2(a, b) == IF a >= b THEN a ELSE b
Abs(x) == IF x < 0 THEN -x ELSE x

\* int(n/d) for d > 0: truncation toward zero
TruncDiv(n, d) == IF n >= 0 THEN n \div d ELSE -((-n) \div d)

\* round(n/d) for d > 0: to nearest, ties to even
RoundDiv(n, d) ==
    LET q == n \div d
        r == n - q * d
    IN  IF 2 * r < d THEN q
        ELSE IF 2 * r > d THEN q + 1
        ELSE IF q % 2 = 0 THEN q ELSE q + 1

\* round(n/d, 2), in hundredths
Round2(n, d) == RoundDiv(100 * n, d)

\* round(n/d, 8), in units of 1e-8
Round8(n, d) == RoundDiv(100000000 * n, d)

\* round(n/d, 1), in tenths
Round1(n, d) == RoundDiv(10 * n, d)

RECURSIVE SumSeq(_)
SumSeq(s) == IF s = <<>> THEN 0 ELSE Head(s) + SumSeq(Tail(s))

RECURSIVE MaxSeq(_)
MaxSeq(s) == IF Len(s) = 1 THEN s[1] ELSE Max2(Head(s), MaxSeq(Tail(s)))

RECURSIVE MinSeq(_)
MinSeq(s) == IF Len(s) = 1 THEN s[1] ELSE Min2(Head(s), MinSeq(Tail(s)))

\* sorted(s)
RECURSIVE Insert(_, _)
Insert(x, s) ==
    IF s = <<>> THEN <<x>>
    ELSE IF x < Head(s) THEN <<x>> \o s
    ELSE <<Head(s)>> \o Insert(x, Tail(s))

RECURSIVE Sorted(_)
Sorted(s) == IF s = <<>> THEN <<>> ELSE Insert(Head(s), Sorted(Tail(s)))

\* number of elements of s equal to x
Count(s, x) == Cardinality({i \in DOMAIN s : s[i] = x})

\* the counting dict built by "for x in s: d[x] += 1"
Histogram(s) == [k \in {s[i] : i \in DOMAIN s} |-> Count(s, k)]

\* max(d, key=d.get) for the dict Histogram(s): the first-inserted key among
\* those with the largest count
FirstIndex(s, x) == CHOOSE i \in DOMAIN s : s[i] = x /\ \A j \in 1..(i - 1) : s[j] # x

MaxKey(s) ==
    CHOOSE k \in DOMAIN Histogram(s) :
        \A other \in DOMAIN Histogram(s) :
            \/ Count(s, other) < Count(s, k)
            \/ Count(s, other) = Count(s, k) /\ FirstIndex(s, k) <= FirstIndex(s, other)

----------------------------------------------------------------------------
(* CSV fields are strings.  float() and datetime.fromisoformat() on the    *)
(* strings the inputs are drawn from.                                      *)

\* float(s): ok = FALSE stands for ValueError / TypeError
ParseFloat(s) ==
    CASE s = "0"      -> [ok |-> TRUE, v |-> 0]
      [] s = "100"    -> [ok |-> TRUE, v |-> 100]
      [] s = "10000"  -> [ok |-> TRUE, v |-> 10000]
      [] s = "20000"  -> [ok |-> TRUE, v |-> 20000]
      [] s = "-20000" -> [ok |-> TRUE, v |-> -20000]
      [] s = "2"      -> [ok |-> TRUE, v |-> 2]
      [] s = "3"      -> [ok |-> TRUE, v |-> 3]
      [] s = "-1"     -> [ok |-> TRUE, v |-> -1]
      [] s = "-5"     -> [ok |-> TRUE, v |-> -5]
      [] OTHER        -> [ok |-> FALSE, v |-> 0]

\* datetime.fromisoformat(s.replace('Z', '+00:00')): minutes counts from
\* 2024-01-01T00:00 (a Monday); aware = the string carries a UTC offset;
\* ok = FALSE stands for ValueError
FromIsoFormat(s) ==
    CASE s = "2024-01-01T00:00:00Z" -> [ok |-> TRUE, aware |-> TRUE,  minutes |-> 0]
      [] s = "2024-01-01T00:10:00Z" -> [ok |-> TRUE, aware |-> TRUE,  minutes |-> 10]
      [] s = "2024-01-02T12:00:00Z" -> [ok |-> TRUE, aware |-> TRUE,  minutes |-> 2160]
      [] s = "2024-01-10T00:00:00Z" -> [ok |-> TRUE, aware |-> TRUE,  minutes |-> 12960]
      [] s = "2024-01-01T00:10:00"  -> [ok |-> TRUE, aware |-> FALSE, minutes |-> 10]
      [] OTHER                      -> [ok |-> FALSE, aware |-> FALSE, minutes |-> 0]

Hour(ts) == (ts.minutes \div 60) % 24
Weekday(ts) == (ts.minutes \div (60 * 24)) % 7
WeekdayNames == <<"Mon", "Tue", "Wed", "Thu", "Fri", "Sat", "Sun">>

\* "w in s" for the level labels: s is built of w and the label fragments
LabelFragments == {"", " Risk", " Frequency"}
Contains(w, s) == \E pre \in LabelFragments, post \in LabelFragments : s = pre \o w \o post

----------------------------------------------------------------------------
(* Inputs *)

Order(st, ty, qty, ts) == [ordStatus |-> st, ordType |-> ty, orderQty |-> qty, timestamp |-> ts]

OrderRows ==
    { Order("Filled",   "Limit",  "100",    "2024-01-01T00:00:00Z"),
      Order("Filled",   "Market", "-20000", "2024-01-01T00:10:00Z"),
      Order("Filled",   "Limit",  "abc",    "2024-01-02T12:00:00Z"),
      Order("Filled",   "Market", "0",      "2024-01-10T00:00:00Z"),
      Order("Filled",   "Limit",  "10000",  "not-a-date"),
      Order("Filled",   "Stop",   "20000",  "2024-01-01T00:10:00"),
      Order("Canceled", "Limit",  "100",    "2024-01-01T00:00:00Z"),
      [ordStatus |-> "New", orderQty |-> "100", timestamp |-> "2024-01-01T00:10:00Z"] }

BulkRows ==
    { Order("Filled",   "Limit",  "100",    "2024-01-01T00:00:00Z"),
      Order("Filled",   "Market", "-20000", "2024-01-01T00:10:00Z"),
      Order("Filled",   "Limit",  "abc",    "2024-01-02T12:00:00Z"),
      Order("Canceled", "Limit",  "100",    "2024-01-01T00:00:00Z") }

Wallet(ty, amount) == [transactType |-> ty, amount |-> amount]

WalletRows ==
    { Wallet("RealisedPNL", "2"),
      Wallet("RealisedPNL", "3"),
      Wallet("RealisedPNL", "-1"),
      Wallet("RealisedPNL", "0"),
      Wallet("RealisedPNL", "n/a"),
      Wallet("Funding",     "-5") }

ExecutionRows == { [execID |-> "1000000", orderID |-> "1", side |-> "Buy"] }

SeqsUpTo(S, n) == UNION { [1..k -> S] : k \in 0..n }

Repeat(x, n) == [i \in 1..n |-> x]

\* a CSV file: absent, or its rows
Absent == [exists |-> FALSE, rows |-> <<>>]
File(rows) == [exists |-> TRUE, rows |-> rows]

FewOrders ==
    {Absent} \cup {File(s) : s \in {<<>>, Repeat(Order("Filled", "Market", "-20000", "2024-01-01T00:10:00Z"), 2)}}
FewWallets ==
    {Absent} \cup {File(s) : s \in {<<Wallet("Funding", "-5")>>, <<Wallet("RealisedPNL", "2")>>}}
FewExecutions == {Absent} \cup {File(s) : s \in [1..1 -> ExecutionRows]}

\* every short order list, with a few wallet histories
SmallOrderInputs ==
    [orders : {Absent} \cup {File(s) : s \in SeqsUpTo(OrderRows, MaxOrders)},
     wallet : FewWallets,
     executions : FewExecutions]

\* every short wallet history, with a few order lists
SmallWalletInputs ==
    [orders : FewOrders,
     wallet : {File(s) : s \in SeqsUpTo(WalletRows, MaxWallet)},
     executions : FewExecutions]

\* long order lists: a run of one row followed by a run of another, the
\* list of a round length or of the largest one
BulkLengths == {n \in 10..MaxRun : n % 10 = 0 \/ n = MaxRun}

BulkInputs ==
    [orders : UNION { {File(Repeat(x, a) \o Repeat(y, n - a)) :
                          x \in BulkRows, y \in BulkRows, a \in 0..n} :
                      n \in BulkLengths },
     wallet : {Absent},
     executions : {Absent}]

Inputs == SmallOrderInputs \cup SmallWalletInputs \cup BulkInputs

\* profile = {...} of analyze_trader_profile, before any section has run
InitialProfile ==
    [basic_stats |-> EmptyMap, risk_preference |-> EmptyMap,
     trading_frequency |-> EmptyMap, discipline_scores |-> EmptyMap,
     trading_patterns |-> EmptyMap, summary |-> EmptyMap]

Init ==
    /\ files \in Inputs
    /\ pc = "load"
    /\ orders = <<>>
    /\ wallet_history = <<>>
    /\ executions = <<>>
    /\ locals = EmptyMap
    /\ profile = EmptyMap
    /\ report = EmptyMap
    /\ error = "none"

----------------------------------------------------------------------------
(* The scores and labels of analyze_trader_profile *)

\* a clamp that forgets the upper end
ClampLowerOnly(x) == Max2(ScoreMin, x)

\* min(10, max(1, x))
Clamp(x) == Min2(ScoreMax, Max2(ScoreMin, x))

\* "A" if score >= 7 else "B" if score >= 4 else "C"
Level(score, high, medium, low) ==
    IF score >= 7 THEN high ELSE IF score >= 4 THEN medium ELSE low

\* large_order_ratio = len(large_orders) / len(order_sizes) * 100, as a rational
LargeOrderRatio(order_sizes) ==
    [n |-> 100 * Len(SelectSeq(order_sizes, LAMBDA x : x > LargeOrderThreshold)),
     d |-> Len(order_sizes)]

\* a risk score without the "+ 3"
RiskScoreNoOffset(large_order_ratio) ==
    Clamp(TruncDiv(large_order_ratio.n, 5 * large_order_ratio.d))

\* min(10, max(1, int(large_order_ratio / 5 + 3)))
RiskScore(large_order_ratio) ==
    Clamp(TruncDiv(large_order_ratio.n + 3 * 5 * large_order_ratio.d, 5 * large_order_ratio.d))

\* (last_trade - first_trade).days or 1, the trades in minutes
TradingDays(first_trade, last_trade) ==
    LET days == (last_trade - first_trade) \div (60 * 24)
    IN  IF days # 0 THEN days ELSE 1

\* the gaps with "interval >= 0" for "interval > 0"
IntervalsWithZero(sorted_ts) ==
    LET gaps == [i \in 1..(Len(sorted_ts) - 1) |-> sorted_ts[i + 1] - sorted_ts[i]]
    IN  SelectSeq(gaps, LAMBDA g : g >= 0 /\ g < OutlierMinutes)

\* the gaps of sorted(timestamps) in minutes that pass the outlier filter
Intervals(sorted_ts) ==
    LET gaps == [i \in 1..(Len(sorted_ts) - 1) |-> sorted_ts[i + 1] - sorted_ts[i]]
    IN  SelectSeq(gaps, LAMBDA g : g > 0 /\ g < OutlierMinutes)

\* min(10, max(1, int(daily_trades / 5)))
FrequencyScore(daily_trades) ==
    Clamp(TruncDiv(daily_trades.n, 5 * daily_trades.d))

\* limit_orders / total_lm * 100 if total_lm > 0 else 0, as a rational
LimitRatio(limit_orders, market_orders) ==
    LET total_lm == limit_orders + market_orders
    IN  IF total_lm > 0 THEN [n |-> 100 * limit_orders, d |-> total_lm]
        ELSE [n |-> 0, d |-> 1]

\* a discipline score that rounds instead of truncating
DisciplineScoreRounded(limit_ratio) ==
    Clamp(RoundDiv(limit_ratio.n, 10 * limit_ratio.d))

\* min(10, max(1, int(limit_ratio / 10)))
DisciplineScore(limit_ratio) ==
    Clamp(TruncDiv(limit_ratio.n, 10 * limit_ratio.d))

\* len(canceled_orders) / total_orders * 100 if total_orders > 0 else 0
CancelRatio(canceled, total_orders) ==
    IF total_orders > 0 THEN [n |-> 100 * canceled, d |-> total_orders]
    ELSE [n |-> 0, d |-> 1]

\* a patience score that rounds instead of truncating
PatienceScoreRounded(cancel_ratio) ==
    Clamp(RoundDiv(10 * 5 * cancel_ratio.d - cancel_ratio.n, 5 * cancel_ratio.d))

\* min(10, max(1, int(10 - cancel_ratio / 5)))
PatienceScore(cancel_ratio) ==
    Clamp(TruncDiv(10 * 5 * cancel_ratio.d - cancel_ratio.n, 5 * cancel_ratio.d))

\* a fill rate that is a fraction instead of a percentage
FillRateFraction(filled, total_orders) ==
    IF total_orders > 0 THEN Round2(filled, total_orders) ELSE 0

\* round(len(filled_orders) / total_orders * 100, 2) if total_orders > 0 else 0
FillRate(filled, total_orders) ==
    IF total_orders > 0 THEN Round2(100 * filled, total_orders) ELSE 0

\* a profit factor that is the marker only when there are winning trades
ProfitFactorMarkerNeedsWins(win_sum, win_n, loss_sum, loss_n) ==
    IF loss_n > 0 /\ Abs(loss_sum) > 0
    THEN [infinite |-> FALSE,
          hundredths |-> IF win_n > 0
                         THEN Round2(win_sum * loss_n, win_n * Abs(loss_sum))
                         ELSE 0]
    ELSE [infinite |-> win_n > 0, hundredths |-> 0]

\* the value stored under "profit_factor": the string marker when
\* profit_factor is float('inf'), else round(avg_win / avg_loss, 2);
\* avg_win = win_sum / win_n (0 without winning trades), avg_loss likewise
ProfitFactor(win_sum, win_n, loss_sum, loss_n) ==
    LET avg_loss_positive == loss_n > 0 /\ Abs(loss_sum) > 0
    IN  IF avg_loss_positive
        THEN [infinite |-> FALSE,
              hundredths |-> IF win_n > 0
                             THEN Round2(win_sum * loss_n, win_n * Abs(loss_sum))
                             ELSE 0]
        ELSE [infinite |-> TRUE, hundredths |-> 0]

\* the chain with the "Medium" test made on risk_level
TraderTypeMediumRisk(freq_level, risk_level) ==
    IF Contains("High", freq_level) /\ Contains("High", risk_level)
        THEN "Aggressive Day Trader"
    ELSE IF Contains("High", freq_level) /\ Contains("Low", risk_level)
        THEN "Conservative Day Trader"
    ELSE IF Contains("Low", freq_level) /\ Contains("High", risk_level)
        THEN "Bold Swing Trader"
    ELSE IF Contains("Low", freq_level) /\ Contains("Low", risk_level)
        THEN "Conservative Value Investor"
    ELSE IF Contains("Medium", risk_level)
        THEN "Balanced Short-term Trader"
    ELSE "Comprehensive Trader"

\* the if / elif chain over freq_level and risk_level
TraderType(freq_level, risk_level) ==
    IF Contains("High", freq_level) /\ Contains("High", risk_level)
        THEN "Aggressive Day Trader"
    ELSE IF Contains("High", freq_level) /\ Contains("Low", risk_level)
        THEN "Conservative Day Trader"
    ELSE IF Contains("Low", freq_level) /\ Contains("High", risk_level)
        THEN "Bold Swing Trader"
    ELSE IF Contains("Low", freq_level) /\ Contains("Low", risk_level)
        THEN "Conservative Value Investor"
    ELSE IF Contains("Medium", freq_level)
        THEN "Balanced Short-term Trader"
    ELSE "Comprehensive Trader"

\* filled_orders / canceled_orders of the order list
WithStatus(os, status) == SelectSeq(os, LAMBDA o : Get(o, "ordStatus", "") = status)

\* pnl_entries without the transactType test
PnlEntriesUnfiltered(history) == history

\* pnl_entries of the wallet history
PnlEntries(history) ==
    SelectSeq(history, LAMBDA w : Get(w, "transactType", "") = "RealisedPNL")

\* the try / except loops: the values that parse, in order
ParsedTimestamps(filled_orders) ==
    LET parsed == [i \in DOMAIN filled_orders |->
                      FromIsoFormat(Get(filled_orders[i], "timestamp", ""))]
    IN  SelectSeq(parsed, LAMBDA t : t.ok)

OrderSizes(filled_orders) ==
    LET parsed == [i \in DOMAIN filled_orders |->
                      ParseFloat(Get(filled_orders[i], "orderQty", "0"))]
        valid == SelectSeq(parsed, LAMBDA q : q.ok /\ Abs(q.v) > 0)
    IN  [i \in DOMAIN valid |-> Abs(valid[i].v)]

PnlAmounts(pnl_entries) ==
    LET parsed == [i \in DOMAIN pnl_entries |->
                      ParseFloat(Get(pnl_entries[i], "amount", "0"))]
        valid == SelectSeq(parsed, LAMBDA a : a.ok)
    IN  [i \in DOMAIN valid |-> valid[i].v]

\* min() / max() / sorted() of datetimes raise TypeError when aware and
\* naive values are compared
Comparable(timestamps) ==
    \A i, j \in DOMAIN timestamps : timestamps[i].aware = timestamps[j].aware


----------------------------------------------------------------------------
(* The run: main() and the sections of analyze_trader_profile *)

Raise(exception) ==
    /\ pc' = "error"
    /\ error' = exception

\* main: load_* if os.path.exists(...) else []
Load ==
    /\ pc = "load"
    /\ orders' = IF files.orders.exists THEN files.orders.rows ELSE <<>>
    /\ wallet_history' = IF files.wallet.exists THEN files.wallet.rows ELSE <<>>
    /\ executions' = IF files.executions.exists THEN files.executions.rows ELSE <<>>
    /\ pc' = "basic_stats"
    /\ UNCHANGED <<files, locals, profile, report, error>>

\* Basic Statistics that pops the rows off the caller's order list
BasicStatsPopping ==
    /\ pc = "basic_stats"
    /\ LET total_orders == Len(orders)
           filled_orders == WithStatus(orders, "Filled")
           canceled_orders == WithStatus(orders, "Canceled")
           order_types == Histogram([i \in DOMAIN orders |-> Get(orders[i], "ordType", "Unknown")])
       IN  /\ locals' = [total_orders |-> total_orders,
                         filled_orders |-> filled_orders,
                         canceled_orders |-> canceled_orders,
                         order_types |-> order_types]
           /\ profile' = [InitialProfile EXCEPT !.basic_stats =
                            [total_orders |-> total_orders,
                             filled_orders |-> Len(filled_orders),
                             canceled_orders |-> Len(canceled_orders),
                             fill_rate |-> FillRate(Len(filled_orders), total_orders),
                             order_types |-> order_types]]
    /\ pc' = "trading_patterns"
    /\ orders' = <<>>
    /\ UNCHANGED <<files, wallet_history, executions, report, error>>

\* profile = {...}; Basic Statistics
BasicStats ==
    /\ pc = "basic_stats"
    /\ LET total_orders == Len(orders)
           filled_orders == WithStatus(orders, "Filled")
           canceled_orders == WithStatus(orders, "Canceled")
           order_types == Histogram([i \in DOMAIN orders |-> Get(orders[i], "ordType", "Unknown")])
       IN  /\ locals' = [total_orders |-> total_orders,
                         filled_orders |-> filled_orders,
                         canceled_orders |-> canceled_orders,
                         order_types |-> order_types]
           /\ profile' = [InitialProfile EXCEPT !.basic_stats =
                            [total_orders |-> total_orders,
                             filled_orders |-> Len(filled_orders),
                             canceled_orders |-> Len(canceled_orders),
                             fill_rate |-> FillRate(Len(filled_orders), total_orders),
                             order_types |-> order_types]]
    /\ pc' = "trading_patterns"
    /\ UNCHANGED <<files, orders, wallet_history, executions, report, error>>

\* Trading Time Analysis: timestamps is bound only when filled_orders is not empty
TradingPatterns ==
    /\ pc = "trading_patterns"
    /\ LET timestamps == ParsedTimestamps(locals.filled_orders)
           hours == [i \in DOMAIN timestamps |-> Hour(timestamps[i])]
           weekdays == [i \in DOMAIN timestamps |-> Weekday(timestamps[i])]
       IN  /\ locals' = IF locals.filled_orders # <<>>
                        THEN locals @@ [timestamps |-> timestamps]
                        ELSE locals
           /\ profile' = IF locals.filled_orders # <<>> /\ timestamps # <<>>
                         THEN [profile EXCEPT !.trading_patterns =
                                 [hour_distribution |-> Histogram(hours),
                                  weekday_distribution |-> Histogram(weekdays),
                                  most_active_hour |-> MaxKey(hours),
                                  most_active_day |-> WeekdayNames[MaxKey(weekdays) + 1]]]
                         ELSE profile
    /\ pc' = "risk_preference"
    /\ UNCHANGED <<files, orders, wallet_history, executions, report, error>>

\* Risk Preference Analysis
RiskPreference ==
    /\ pc = "risk_preference"
    /\ LET order_sizes == OrderSizes(locals.filled_orders)
           large_order_ratio == LargeOrderRatio(order_sizes)
           risk_score == RiskScore(large_order_ratio)
       IN  profile' = IF order_sizes # <<>>
                      THEN [profile EXCEPT !.risk_preference =
                              [avg_order_size |-> Round2(SumSeq(order_sizes), Len(order_sizes)),
                               max_order_size |-> MaxSeq(order_sizes),
                               min_order_size |-> MinSeq(order_sizes),
                               large_order_ratio |-> Round2(large_order_ratio.n, large_order_ratio.d),
                               risk_score |-> risk_score,
                               risk_level |-> Level(risk_score, "High Risk", "Medium Risk", "Low Risk")]]
                      ELSE profile
    /\ pc' = "trading_frequency"
    /\ UNCHANGED <<files, orders, wallet_history, executions, locals, report, error>>

\* Trading Frequency Analysis: reads timestamps, binds daily_trades
TradingFrequency ==
    /\ pc = "trading_frequency"
    /\ IF "timestamps" \notin DOMAIN locals
       THEN Raise("UnboundLocalError") /\ UNCHANGED <<locals, profile>>
       ELSE IF Len(locals.timestamps) < 2
       THEN pc' = "discipline_scores" /\ UNCHANGED <<locals, profile, error>>
       ELSE IF ~Comparable(locals.timestamps)
       THEN Raise("TypeError") /\ UNCHANGED <<locals, profile>>
       ELSE LET minutes == [i \in DOMAIN locals.timestamps |-> locals.timestamps[i].minutes]
                first_trade == MinSeq(minutes)
                last_trade == MaxSeq(minutes)
                trading_days == TradingDays(first_trade, last_trade)
                daily_trades == [n |-> Len(locals.filled_orders), d |-> trading_days]
                intervals == Intervals(Sorted(minutes))
                frequency_score == FrequencyScore(daily_trades)
            IN  /\ locals' = locals @@ [daily_trades |-> daily_trades]
                /\ profile' = [profile EXCEPT !.trading_frequency =
                      [total_trading_days |-> trading_days,
                       daily_avg_trades |-> Round2(daily_trades.n, daily_trades.d),
                       avg_trade_interval_minutes |->
                           IF intervals # <<>>
                           THEN Round2(SumSeq(intervals), Len(intervals)) ELSE 0,
                       frequency_score |-> frequency_score,
                       frequency_level |-> Level(frequency_score, "High Frequency",
                                                 "Medium Frequency", "Low Frequency")]]
                /\ pc' = "discipline_scores"
                /\ UNCHANGED error
    /\ UNCHANGED <<files, orders, wallet_history, executions, report>>

\* Discipline Score
DisciplineScores ==
    /\ pc = "discipline_scores"
    /\ LET limit_orders == Get(locals.order_types, "Limit", 0)
           market_orders == Get(locals.order_types, "Market", 0)
           limit_ratio == LimitRatio(limit_orders, market_orders)
           discipline_score == DisciplineScore(limit_ratio)
           cancel_ratio == CancelRatio(Len(locals.canceled_orders), locals.total_orders)
           patience_score == PatienceScore(cancel_ratio)
       IN  /\ locals' = locals @@ [limit_ratio |-> limit_ratio]
           /\ profile' = [profile EXCEPT !.discipline_scores =
                 [limit_order_ratio |-> Round2(limit_ratio.n, limit_ratio.d),
                  cancel_ratio |-> Round2(cancel_ratio.n, cancel_ratio.d),
                  discipline_score |-> discipline_score,
                  patience_score |-> patience_score,
                  discipline_level |-> Level(discipline_score, "Highly Disciplined",
                                             "Moderately Disciplined", "Needs Improvement"),
                  patience_level |-> Level(patience_score, "Very Patient",
                                           "Moderately Patient", "Impulsive")]]
    /\ pc' = "pnl_analysis"
    /\ UNCHANGED <<files, orders, wallet_history, executions, report, error>>

\* PnL Analysis (from wallet history); amounts are kept in satoshis, the
\* value in BTC being amount / SatoshisPerBtc
PnLAnalysis ==
    /\ pc = "pnl_analysis"
    /\ LET pnl_entries == PnlEntries(wallet_history)
           pnl_amounts == PnlAmounts(pnl_entries)
           winning_trades == SelectSeq(pnl_amounts, LAMBDA x : x > 0)
           losing_trades == SelectSeq(pnl_amounts, LAMBDA x : x < 0)
       IN  profile' = IF pnl_entries # <<>> /\ pnl_amounts # <<>>
                      THEN profile @@ [pnl_analysis |->
                             [total_pnl_btc |-> Round8(SumSeq(pnl_amounts), SatoshisPerBtc),
                              total_trades |-> Len(pnl_amounts),
                              winning_trades |-> Len(winning_trades),
                              losing_trades |-> Len(losing_trades),
                              win_rate |-> Round2(100 * Len(winning_trades), Len(pnl_amounts)),
                              avg_win_btc |->
                                  IF winning_trades # <<>>
                                  THEN Round8(SumSeq(winning_trades),
                                              Len(winning_trades) * SatoshisPerBtc)
                                  ELSE 0,
                              avg_loss_btc |->
                                  IF losing_trades # <<>>
                                  THEN Round8(Abs(SumSeq(losing_trades)),
                                              Len(losing_trades) * SatoshisPerBtc)
                                  ELSE 0,
                              profit_factor |->
                                  ProfitFactor(SumSeq(winning_trades), Len(winning_trades),
                                               SumSeq(losing_trades), Len(losing_trades))]]
                      ELSE profile
    /\ pc' = "summary"
    /\ UNCHANGED <<files, orders, wallet_history, executions, locals, report, error>>

\* Summary: the dict literal reads daily_trades before profile["summary"] is set
Summary ==
    /\ pc = "summary"
    /\ LET risk_level == Get(profile.risk_preference, "risk_level", "Unknown")
           freq_level == Get(profile.trading_frequency, "frequency_level", "Unknown")
           discipline_level == Get(profile.discipline_scores, "discipline_level", "Unknown")
           risk_score == Get(profile.risk_preference, "risk_score", 5)
           score_sum == risk_score
                        + Get(profile.trading_frequency, "frequency_score", 5)
                        + Get(profile.discipline_scores, "discipline_score", 5)
                        + Get(profile.discipline_scores, "patience_score", 5)
       IN  IF "daily_trades" \notin DOMAIN locals
           THEN Raise("UnboundLocalError") /\ UNCHANGED profile
           ELSE /\ profile' = [profile EXCEPT !.summary =
                      [trader_type |-> TraderType(freq_level, risk_level),
                       risk_level |-> risk_level,
                       frequency_level |-> freq_level,
                       discipline_level |-> discipline_level,
                       overall_score |-> Round1(score_sum, 4),
                       advice |->
                         << IF locals.limit_ratio.n > 70 * locals.limit_ratio.d
                            THEN "Continue maintaining limit order trading habits to improve execution efficiency"
                            ELSE "Consider increasing limit order usage to reduce slippage costs",
                            IF locals.daily_trades.n < 50 * locals.daily_trades.d
                            THEN "Trading rhythm is stable, maintain current strategy"
                            ELSE "Consider reducing trading frequency to improve quality per trade",
                            IF risk_score < 5
                            THEN "Risk control is good"
                            ELSE "Pay attention to controlling position sizes and diversifying risk" >>]]
                /\ pc' = "write_report"
                /\ UNCHANGED error
    /\ UNCHANGED <<files, orders, wallet_history, executions, locals, report>>

\* main: print the sections, json.dump(profile, f)
WriteReport ==
    /\ pc = "write_report"
    /\ report' = profile
    /\ pc' = "done"
    /\ UNCHANGED <<files, orders, wallet_history, executions, locals, profile, error>>

Next ==
    \/ Load
    \/ BasicStats
    \/ TradingPatterns
    \/ RiskPreference
    \/ TradingFrequency
    \/ DisciplineScores
    \/ PnLAnalysis
    \/ Summary
    \/ WriteReport

Spec == Init /\ [][Next]_vars

\* analyze_trader_profile called again on the same three lists: the call
\* starts with fresh locals and a fresh profile; report and error keep the
\* outcome of the call before
Rerun ==
    /\ pc \in {"done", "error"}
    /\ pc' = "basic_stats"
    /\ locals' = EmptyMap
    /\ profile' = EmptyMap
    /\ UNCHANGED <<files, orders, wallet_history, executions, report, error>>

NextRerun == Next \/ Rerun

SpecRerun == Init /\ [][NextRerun]_vars


----------------------------------------------------------------------------
(* What the claims speak of, taken from the input files alone *)

InputOrders == IF files.orders.exists THEN files.orders.rows ELSE <<>>
InputWallet == IF files.wallet.exists THEN files.wallet.rows ELSE <<>>

HasField(row, field, value) == field \in DOMAIN row /\ row[field] = value

FilledIdx == {i \in DOMAIN InputOrders : HasField(InputOrders[i], "ordStatus", "Filled")}
CanceledIdx == {i \in DOMAIN InputOrders : HasField(InputOrders[i], "ordStatus", "Canceled")}
ParseableIdx == {i \in FilledIdx : FromIsoFormat(InputOrders[i].timestamp).ok}
ValidSizeIdx ==
    {i \in FilledIdx : LET q == ParseFloat(InputOrders[i].orderQty) IN q.ok /\ q.v # 0}
PnlIdx == {i \in DOMAIN InputWallet : HasField(InputWallet[i], "transactType", "RealisedPNL")}

Finished == pc \in {"done", "error"}
Populated(section) == section \in DOMAIN profile /\ profile[section] # EmptyMap
Written(section) == section \in DOMAIN report /\ report[section] # EmptyMap

Scores ==
    {<<"risk_preference", "risk_score">>, <<"trading_frequency", "frequency_score">>,
     <<"discipline_scores", "discipline_score">>, <<"discipline_scores", "patience_score">>}

----------------------------------------------------------------------------
(* Claims *)

\* C1: whatever the three record sets are (absent files, no Filled order,
\* fewer than two parseable timestamps included), the run main ->
\* analyze_trader_profile never ends in an error.
C1_RunNeverFails == pc # "error"

\* C1, the runs that do complete: at least two filled orders whose timestamps
\* parse and can be compared with each other lead to a written report.
C1_CompletesWithTwoTimestamps ==
    (Cardinality(ParseableIdx) >= 2
        /\ \A i, j \in ParseableIdx :
              FromIsoFormat(InputOrders[i].timestamp).aware
                  = FromIsoFormat(InputOrders[j].timestamp).aware)
    => pc # "error"

\* C2: for an empty order set the run yields a profile whose basic_stats has
\* total_orders, filled_orders, canceled_orders and fill_rate all 0 and
\* order_types empty.
C2_EmptyOrdersZeroStats ==
    (Finished /\ InputOrders = <<>>)
    => /\ pc = "done"
       /\ report.basic_stats = [total_orders |-> 0, filled_orders |-> 0,
                                canceled_orders |-> 0, fill_rate |-> 0,
                                order_types |-> EmptyMap]

\* C3: a metric group whose minimum sample count is unmet is omitted from
\* the produced report (no zero or placeholder metric), and the report is
\* still produced with the other groups.
C3_UnmetGroupsOmitted ==
    Finished
    => /\ pc = "done"
       /\ ValidSizeIdx = {} => ~Written("risk_preference")
       /\ ParseableIdx = {} => ~Written("trading_patterns")
       /\ Cardinality(ParseableIdx) < 2 => ~Written("trading_frequency")
       /\ PnlIdx = {} => ~Written("pnl_analysis")
       /\ Written("basic_stats") /\ Written("discipline_scores") /\ Written("summary")

\* C4: every score present in the profile (risk_score, frequency_score,
\* discipline_score, patience_score) is an integer in [1,10].
C4_ScoresInRange ==
    \A sc \in Scores :
        (Populated(sc[1]) /\ sc[2] \in DOMAIN profile[sc[1]])
        => profile[sc[1]][sc[2]] \in 1..10

\* C4 witness: a written report with all four scores, the risk score at the
\* upper end and the patience score at the lower end of the range.
C4_Witness ==
    /\ pc = "done"
    /\ \A sc \in Scores : Written(sc[1])
    /\ report.risk_preference.risk_score = 10
    /\ report.discipline_scores.patience_score = 1

\* C5: with total_orders > 0, filled_orders counts exactly the orders with
\* ordStatus == 'Filled', filled_orders <= total_orders, and fill_rate is
\* filled/total*100 (to the nearest hundredth), within [0,100].
C5_FillRate ==
    (Populated("basic_stats") /\ profile.basic_stats.total_orders > 0)
    => LET bs == profile.basic_stats
       IN  /\ bs.total_orders = Len(InputOrders)
           /\ bs.filled_orders = Cardinality(FilledIdx)
           /\ bs.filled_orders <= bs.total_orders
           /\ bs.fill_rate \in 0..(100 * 100)
           /\ 2 * Abs(bs.fill_rate * bs.total_orders - 100 * 100 * bs.filled_orders)
                  <= bs.total_orders

\* C5 witness: three orders of which one is filled, fill_rate 33.33.
C5_Witness ==
    /\ Populated("basic_stats")
    /\ profile.basic_stats.total_orders = 3
    /\ profile.basic_stats.filled_orders = 1
    /\ profile.basic_stats.fill_rate = 3333


\* C6: summary.trader_type is given by the six-row table over
\* (frequency_level, risk_level), first match wins, and is never any other
\* value.
C6_TraderTypeTable ==
    Populated("summary")
    => LET freq == Get(profile.trading_frequency, "frequency_level", "Unknown")
           risk == Get(profile.risk_preference, "risk_level", "Unknown")
           type == profile.summary.trader_type
       IN  /\ freq \in {"High Frequency", "Medium Frequency", "Low Frequency", "Unknown"}
           /\ risk \in {"High Risk", "Medium Risk", "Low Risk", "Unknown"}
           /\ profile.summary.frequency_level = freq
           /\ profile.summary.risk_level = risk
           /\ type = CASE freq = "High Frequency" /\ risk = "High Risk" -> "Aggressive Day Trader"
                       [] freq = "High Frequency" /\ risk = "Low Risk" -> "Conservative Day Trader"
                       [] freq = "Low Frequency" /\ risk = "High Risk" -> "Bold Swing Trader"
                       [] freq = "Low Frequency" /\ risk = "Low Risk" -> "Conservative Value Investor"
                       [] freq = "Medium Frequency" -> "Balanced Short-term Trader"
                       [] OTHER -> "Comprehensive Trader"

\* C6 witness: a high-frequency trader of medium risk falls through to the
\* last row of the table.
C6_Witness ==
    /\ Populated("summary")
    /\ profile.summary.frequency_level = "High Frequency"
    /\ profile.summary.risk_level = "Medium Risk"
    /\ profile.summary.trader_type = "Comprehensive Trader"

\* the RealisedPNL amounts that parse, as the claims count them
PnlValue(i) == ParseFloat(InputWallet[i].amount)
WinIdx == {i \in PnlIdx : PnlValue(i).ok /\ PnlValue(i).v > 0}
LossIdx == {i \in PnlIdx : PnlValue(i).ok /\ PnlValue(i).v < 0}

RECURSIVE SumOver(_)
SumOver(idx) ==
    IF idx = {} THEN 0
    ELSE LET i == CHOOSE i \in idx : TRUE IN PnlValue(i).v + SumOver(idx \ {i})

\* avg_loss computes to 0 / avg_win > 0, and h hundredths being
\* avg_win / avg_loss to the nearest hundredth
AvgLossIsZero == LossIdx = {}
AvgWinPositive == WinIdx # {}
IsWinLossRatio(h) ==
    /\ LossIdx # {}
    /\ IF WinIdx = {} THEN h = 0
       ELSE LET num == SumOver(WinIdx) * Cardinality(LossIdx)
                den == Cardinality(WinIdx) * Abs(SumOver(LossIdx))
            IN  2 * Abs(h * den - 100 * num) <= den

\* C7 as stated: with pnl_analysis produced, profit_factor is the marker
\* whenever avg_loss computes to 0 and avg_win > 0, and otherwise it is a
\* finite ratio equal to avg_win / avg_loss.
C7_ProfitFactorAsStated ==
    "pnl_analysis" \in DOMAIN profile
    => LET pf == profile.pnl_analysis.profit_factor
       IN  IF AvgLossIsZero /\ AvgWinPositive
           THEN pf.infinite
           ELSE ~pf.infinite /\ IsWinLossRatio(pf.hundredths)

\* C7 amended: with pnl_analysis produced, profit_factor is the marker
\* whenever avg_loss computes to 0, whatever avg_win is (0 included), and
\* otherwise it is the finite ratio avg_win / avg_loss, rounded to 2 decimals.
C7_ProfitFactorAmended ==
    "pnl_analysis" \in DOMAIN profile
    => LET pf == profile.pnl_analysis.profit_factor
       IN  IF AvgLossIsZero
           THEN pf.infinite
           ELSE ~pf.infinite /\ IsWinLossRatio(pf.hundredths)

\* C7 witness: only break-even entries, so avg_win and avg_loss are both 0
\* and profit_factor is the marker.
C7_Witness ==
    /\ "pnl_analysis" \in DOMAIN profile
    /\ AvgLossIsZero /\ ~AvgWinPositive
    /\ profile.pnl_analysis.total_trades >= 1
    /\ profile.pnl_analysis.profit_factor.infinite

\* C8: with no wallet entry of transactType 'RealisedPNL' the key
\* pnl_analysis is absent from the profile and from the written report,
\* for every order set.
C8_NoPnlKeyWithoutPnlEntries ==
    PnlIdx = {} => ("pnl_analysis" \notin DOMAIN profile /\ "pnl_analysis" \notin DOMAIN report)

\* C8 witness: a report written from a wallet history holding only a
\* Funding entry has no pnl_analysis key.
C8_Witness ==
    /\ pc = "done"
    /\ InputWallet # <<>> /\ PnlIdx = {}
    /\ InputOrders # <<>>
    /\ DOMAIN report = DOMAIN InitialProfile

\* the parseable filled-order timestamps, as the claims see them
Minutes(i) == FromIsoFormat(InputOrders[i].timestamp).minutes
Instants == {Minutes(i) : i \in ParseableIdx}
Earliest == CHOOSE t \in Instants : \A u \in Instants : t <= u
Latest == CHOOSE t \in Instants : \A u \in Instants : u <= t
AllComparable ==
    \A i, j \in ParseableIdx :
        FromIsoFormat(InputOrders[i].timestamp).aware
            = FromIsoFormat(InputOrders[j].timestamp).aware
\* the gaps between consecutive sorted timestamps that are > 0 and < 7 days
QualifyingGaps ==
    {<<t, u>> \in Instants \X Instants :
        /\ t < u
        /\ \A v \in Instants : ~(t < v /\ v < u)
        /\ u - t < 7 * 24 * 60}
RECURSIVE GapSum(_)
GapSum(gaps) ==
    IF gaps = {} THEN 0
    ELSE LET g == CHOOSE g \in gaps : TRUE IN (g[2] - g[1]) + GapSum(gaps \ {g})

LimitIdx == {i \in DOMAIN InputOrders : HasField(InputOrders[i], "ordType", "Limit")}
MarketIdx == {i \in DOMAIN InputOrders : HasField(InputOrders[i], "ordType", "Market")}

\* C10: discipline_score == clamp(1,10, floor(limit_ratio/10)) with
\* limit_ratio = Limit/(Limit+Market)*100 (0 without Limit or Market order);
\* discipline_level is 'Highly Disciplined' for score >= 7, 'Moderately
\* Disciplined' for score >= 4, else 'Needs Improvement'.
C10_DisciplineScore ==
    Populated("discipline_scores")
    => LET ds == profile.discipline_scores
           l == Cardinality(LimitIdx)
           lm == Cardinality(LimitIdx) + Cardinality(MarketIdx)
           \* q = floor(limit_ratio / 10): q * 10 <= limit_ratio < (q + 1) * 10
           q == IF lm = 0 THEN 0
                ELSE CHOOSE k \in 0..10 : 10 * k * lm <= 100 * l /\ 100 * l < 10 * (k + 1) * lm
       IN  /\ ds.discipline_score = (IF q < 1 THEN 1 ELSE IF q > 10 THEN 10 ELSE q)
           /\ ds.discipline_score >= 7 => ds.discipline_level = "Highly Disciplined"
           /\ ds.discipline_score \in 4..6 => ds.discipline_level = "Moderately Disciplined"
           /\ ds.discipline_score < 4 => ds.discipline_level = "Needs Improvement"

\* C10 witness: a limit:market ratio of 9:1 gives discipline_score 9 and
\* 'Highly Disciplined'.
C10_Witness ==
    /\ Populated("discipline_scores")
    /\ Cardinality(LimitIdx) = 9 /\ Cardinality(MarketIdx) = 1
    /\ profile.discipline_scores.discipline_score = 9
    /\ profile.discipline_scores.discipline_level = "Highly Disciplined"


\* a call after the first one is under way / a call ends with this step
SecondCall == report # EmptyMap \/ error # "none"
CallEnds == pc \notin {"done", "error"} /\ pc' \in {"done", "error"}

PatienceFloor(canceled, total) ==
    CHOOSE f \in -10..10 :
        f * total <= 10 * total - 20 * canceled /\ 10 * total - 20 * canceled < (f + 1) * total

\* C12: patience_score equals clamp(1,10, floor(10 - cancel_ratio/5)) with
\* cancel_ratio = canceled/total*100 (0 when total is 0), although the code
\* truncates toward zero; the two agree after clamping for every
\* canceled <= total, also where 10 - cancel_ratio/5 is negative.
C12_PatienceScoreIsClampedFloor ==
    Populated("discipline_scores")
    => LET canceled == Cardinality(CanceledIdx)
           total == Len(InputOrders)
           f == IF total = 0 THEN 10 ELSE PatienceFloor(canceled, total)
       IN  profile.discipline_scores.patience_score
               = (IF f < 1 THEN 1 ELSE IF f > 10 THEN 10 ELSE f)

\* C12 witness: 10 - cancel_ratio/5 is negative and not whole, so that
\* truncation and floor differ before the clamp, and patience_score is 1.
C12_Witness ==
    /\ Populated("discipline_scores")
    /\ Len(InputOrders) > 0
    /\ 20 * Cardinality(CanceledIdx) > 10 * Len(InputOrders)
    /\ (20 * Cardinality(CanceledIdx)) % Len(InputOrders) # 0
    /\ PatienceFloor(Cardinality(CanceledIdx), Len(InputOrders))
           # TruncDiv(10 * Len(InputOrders) - 20 * Cardinality(CanceledIdx), Len(InputOrders))
    /\ profile.discipline_scores.patience_score = 1

\* the valid filled order sizes that exceed 10,000
LargeIdx == {i \in ValidSizeIdx : Abs(ParseFloat(InputOrders[i].orderQty).v) > 10000}

\* C13: whenever risk_preference is populated, risk_score lies in [3,10],
\* and risk_level is 'Low Risk' exactly when fewer than 5% of the valid
\* filled order sizes exceed 10,000, 'Medium Risk' exactly when at least 5%
\* and fewer than 20% do, 'High Risk' exactly when at least 20% do.
C13_RiskLevelByLargeShare ==
    Populated("risk_preference")
    => LET rp == profile.risk_preference
           large == Cardinality(LargeIdx)
           valid == Cardinality(ValidSizeIdx)
       IN  /\ valid > 0
           /\ rp.risk_score \in 3..10
           /\ (rp.risk_level = "Low Risk") = (100 * large < 5 * valid)
           /\ (rp.risk_level = "Medium Risk")
                  = (100 * large >= 5 * valid /\ 100 * large < 20 * valid)
           /\ (rp.risk_level = "High Risk") = (100 * large >= 20 * valid)

\* C13 witness: exactly 5% of the valid sizes are large, which is
\* 'Medium Risk' with risk_score 4.
C13_Witness ==
    /\ Populated("risk_preference")
    /\ 100 * Cardinality(LargeIdx) = 5 * Cardinality(ValidSizeIdx)
    /\ profile.risk_preference.risk_score = 4
    /\ profile.risk_preference.risk_level = "Medium Risk"


=============================================================================
